---- MODULE Spec2Model ----
(***************************************************************************)
(* CoreDatabaseTableProxy (core/classes/database/database-table-proxy.ts): *)
(* a database table that routes every interaction through a target table   *)
(* whose caching strategy can change while the application runs.           *)
(*                                                                         *)
(* Every `await` of the source is a point where other asynchronous code    *)
(* may run, so each operation is cut into one action per stretch of code   *)
(* between two awaits.                                                     *)
(***************************************************************************)
EXTENDS Integers, Sequences, FiniteSets, Bags, TLC

(* ------------------------------ bounds -------------------------------- *)

\* Events that reach the proxy from outside in one behaviour: notifications
\* of an environment update, changes of the settings and data operations.
MaxEvents == 3

VARIABLES
    config,               \* this.config, set by the constructor
    CONFIG,               \* CoreConstants.CONFIG: the two optimisation settings
    ready,                \* whether CoreConfig.ready() has resolved
    environmentObserver,  \* whether the observer is registered (and not off)
    destroyed,            \* whether destroy() of the proxy has been called
    instance,             \* this.target.instance: a table, or 0 for undefined
    tables,               \* every table ever created by createTarget
    swaps,                \* every execution of updateTarget
    handlers,             \* bag of the executions of the environment observer callback
    operations,           \* bag of the data operations issued through the proxy
    notified,             \* number of ENVIRONMENT_UPDATED events triggered
    changed               \* number of changes of CoreConstants.CONFIG

vars == << config, CONFIG, ready, environmentObserver, destroyed, instance,
           tables, swaps, handlers, operations, notified, changed >>

(* --------------------------- configuration ---------------------------- *)

\* CoreDatabaseCachingStrategy
Eager == "eager"
Lazy == "lazy"
None == "none"
CoreDatabaseCachingStrategy == { Eager, Lazy, None }

\* A value a configuration file can hold that is no caching strategy.
Unregistered == "unregistered"

Undefined == "undefined"

\* Partial<CoreDatabaseConfiguration>: `keys` are the properties the object
\* defines; a property that is not defined holds a fixed filler value.
PartialConfig(keys, cachingStrategy, debug) ==
    [ keys |-> keys,
      cachingStrategy |-> IF "cachingStrategy" \in keys THEN cachingStrategy ELSE None,
      debug |-> IF "debug" \in keys THEN debug ELSE FALSE ]

NoConfig == PartialConfig({}, None, FALSE)

\* Object spread { ...a, ...b }: the properties of b win over those of a.
Spread(a, b) ==
    [ keys |-> a.keys \cup b.keys,
      cachingStrategy |-> IF "cachingStrategy" \in b.keys THEN b.cachingStrategy
                          ELSE a.cachingStrategy,
      debug |-> IF "debug" \in b.keys THEN b.debug ELSE a.debug ]

getConfigDefaults == PartialConfig({"cachingStrategy", "debug"}, None, FALSE)

\* The constructor: this.config = { ...this.getConfigDefaults(), ...config }
Constructor(overrides) == Spread(getConfigDefaults, overrides)

\* getRuntimeConfig with the two spreads of CoreConstants.CONFIG exchanged:
\* the settings of every table win over those of this table.
getRuntimeConfigGlobalLast(thisConfig, constants) ==
    Spread(Spread(thisConfig, constants.databaseTableOptimizations),
           constants.databaseOptimizations)

\* The body of getRuntimeConfig after CoreConfig.ready() has resolved.
getRuntimeConfig(thisConfig, constants) ==
    Spread(Spread(thisConfig, constants.databaseOptimizations),
           constants.databaseTableOptimizations)

\* Configurations given to the constructor.
ConstructorConfigs ==
    { NoConfig, PartialConfig({"cachingStrategy"}, Lazy, FALSE) }

\* CoreConstants.CONFIG with the given global settings (databaseOptimizations)
\* and settings of this table (databaseTableOptimizations[tableName]).
Constants(global, table) ==
    [ databaseOptimizations |-> global, databaseTableOptimizations |-> table ]

\* The settings the environment moves between: nothing set, debugging
\* switched on for every table, a strategy set for every table, debugging
\* switched on or another strategy set for this table on top of it, and a
\* strategy that names no implementation.
Environments ==
    { Constants(NoConfig, NoConfig),
      Constants(PartialConfig({"debug"}, None, TRUE), NoConfig),
      Constants(PartialConfig({"cachingStrategy"}, Eager, FALSE), NoConfig),
      Constants(PartialConfig({"cachingStrategy"}, Eager, FALSE),
                PartialConfig({"debug"}, None, TRUE)),
      Constants(PartialConfig({"cachingStrategy"}, Eager, FALSE),
                PartialConfig({"cachingStrategy"}, Lazy, FALSE)),
      Constants(PartialConfig({"cachingStrategy"}, Unregistered, FALSE), NoConfig) }

(* ------------------------------ targets ------------------------------- *)

\* this.targetConstructors[cachingStrategy]
targetConstructors(cachingStrategy) ==
    CASE cachingStrategy = Eager -> "CoreEagerDatabaseTable"
      [] cachingStrategy = Lazy -> "CoreLazyDatabaseTable"
      [] cachingStrategy = None -> "CoreDatabaseTable"
      [] OTHER -> Undefined

\* createTable with a slip: the constructor of the default strategy is used
\* whatever the strategy asked for.
createTableOfDefault(cachingStrategy) ==
    [ constructor |-> targetConstructors(None),
      debug |-> FALSE,
      initialize |-> "none",
      destroy |-> 0 ]

\* createTable: new DatabaseTable(...). A table is recorded by the constructor
\* of the underlying implementation, whether a CoreDebugDatabaseTable wraps it,
\* the state of its initialize() and the number of calls of its destroy().
createTable(cachingStrategy) ==
    [ constructor |-> targetConstructors(cachingStrategy),
      debug |-> FALSE,
      initialize |-> "none",
      destroy |-> 0 ]

\* createTarget with a slip: the table is returned without the debug wrapper.
createTargetUnwrapped(runtimeConfig) ==
    createTable(runtimeConfig.cachingStrategy)

\* createTarget after its await: config.debug ? new CoreDebugDatabaseTable(table) : table
createTarget(runtimeConfig) ==
    IF runtimeConfig.debug
    THEN [ createTable(runtimeConfig.cachingStrategy) EXCEPT !.debug = TRUE ]
    ELSE createTable(runtimeConfig.cachingStrategy)

\* shouldUpdateTarget with a slip: the test `target === originalTarget` is
\* missing, so a wrapped target is replaced whenever debug is on.
shouldUpdateTargetWheneverDebug(runtimeConfig, target) ==
    \/ runtimeConfig.debug
    \/ target.constructor # targetConstructors(runtimeConfig.cachingStrategy)

\* shouldUpdateTarget with a slip: only the constructors are compared.
shouldUpdateTargetByStrategy(runtimeConfig, target) ==
    target.constructor # targetConstructors(runtimeConfig.cachingStrategy)

\* shouldUpdateTarget with a symmetric test of debug: a wrapped target is
\* replaced when debug is off as a bare one is when debug is on.
shouldUpdateTargetOnDebugChange(runtimeConfig, target) ==
    \/ runtimeConfig.debug # target.debug
    \/ target.constructor # targetConstructors(runtimeConfig.cachingStrategy)

\* shouldUpdateTarget after its two awaits. `target === originalTarget` holds
\* exactly when target is no CoreDebugDatabaseTable.
shouldUpdateTarget(runtimeConfig, target) ==
    \/ runtimeConfig.debug /\ ~target.debug
    \/ target.constructor # targetConstructors(runtimeConfig.cachingStrategy)

(* --------------------- the asynchronous instance ---------------------- *)

\* One caller of getInstance() resumed with the table, if it was waiting.
Resumed(caller, table) ==
    IF caller.pc = "getInstance"
    THEN [ caller EXCEPT !.pc = "resolved", !.target = table ]
    ELSE caller

\* Callers of getInstance() that found no instance wait until setInstance.
Resolve(callers, table) ==
    [ c \in { Resumed(w, table) : w \in BagToSet(callers) } |->
        BagCardinality([ w \in { v \in BagToSet(callers) : Resumed(v, table) = c }
                           |-> callers[w] ]) ]

\* The bag with one copy of `old` replaced by `new`.
Replace(callers, old, new) ==
    (callers (-) SetToBag({ old })) (+) SetToBag({ new })

\* getInstance(): resolved at once when the handle holds an instance.
getInstance(caller) ==
    IF instance # 0
    THEN [ caller EXCEPT !.pc = "resolved", !.target = instance ]
    ELSE [ caller EXCEPT !.pc = "getInstance" ]

\* setInstance(table): installs the table and resolves every waiting caller.
setInstance(table) ==
    /\ instance' = table
    /\ handlers' = Resolve(handlers, table)
    /\ operations' = Resolve(operations, table)

\* resetInstance(): the handle holds no instance afterwards.
resetInstance ==
    instance' = 0

\* Whether one more event fits in the behaviour.
Budget == notified + changed + BagCardinality(operations) < MaxEvents

(* -------------------------------- Init -------------------------------- *)

Init ==
    /\ config \in { Constructor(c) : c \in ConstructorConfigs }
    /\ CONFIG = Constants(NoConfig, NoConfig)
    /\ ready = FALSE
    /\ environmentObserver = FALSE
    /\ destroyed = FALSE
    /\ instance = 0
    /\ tables = << >>
    /\ swaps = << >>
    /\ handlers = EmptyBag
    /\ operations = EmptyBag
    /\ notified = 0
    /\ changed = 0

(* ---------------------------- environment ----------------------------- *)

\* CoreConfig.ready() resolves.
ConfigReady ==
    /\ ~ready
    /\ ready' = TRUE
    /\ UNCHANGED << config, CONFIG, environmentObserver, destroyed, instance,
                    tables, swaps, handlers, operations, notified, changed >>

\* The environment changes the optimisation settings.
SetConfig ==
    /\ Budget
    /\ changed' = changed + 1
    /\ \E e \in Environments :
          /\ e # CONFIG
          /\ CONFIG' = e
    /\ UNCHANGED << config, ready, environmentObserver, destroyed, instance,
                    tables, swaps, handlers, operations, notified >>

(* ---------------------------- updateTarget ---------------------------- *)

\* updateTarget up to its first await: const oldTarget = this.target.instance,
\* then createTarget() runs up to the await of getRuntimeConfig.
\* `by` is the caller, "initialize" or "observer".
NewSwap(by) ==
    [ pc |-> "createTarget", by |-> by, oldTarget |-> instance, newTarget |-> 0,
      config |-> getConfigDefaults ]

\* createTarget with a slip: the table is built from this.config, the
\* settings kept since construction, instead of the runtime configuration.
CreateTargetFromStoredConfig(s) ==
    /\ swaps[s].pc = "createTarget"
    /\ ready
    /\ LET runtimeConfig == config IN
         IF targetConstructors(runtimeConfig.cachingStrategy) = Undefined
         THEN /\ swaps' = [ swaps EXCEPT ![s].pc = "createTargetFailed",
                                         ![s].config = runtimeConfig ]
              /\ tables' = tables
         ELSE /\ tables' = Append(tables, createTarget(runtimeConfig))
              /\ swaps' = [ swaps EXCEPT ![s].pc = "created",
                                         ![s].config = runtimeConfig,
                                         ![s].newTarget = Len(tables) + 1 ]
    /\ UNCHANGED << config, CONFIG, ready, environmentObserver, destroyed,
                    instance, handlers, operations, notified, changed >>

\* updateTarget with a slip: the old target is destroyed and the handle is
\* cleared before the new table is built, so a failure of createTable comes
\* after them.
CreateTargetAfterDestroy(s) ==
    /\ swaps[s].pc = "createTarget"
    /\ ready
    /\ LET runtimeConfig == getRuntimeConfig(config, CONFIG) IN
         IF targetConstructors(runtimeConfig.cachingStrategy) = Undefined
         THEN /\ swaps' = [ swaps EXCEPT ![s].pc = "createTargetFailed",
                                         ![s].config = runtimeConfig ]
              /\ tables' = IF swaps[s].oldTarget # 0
                           THEN [ tables EXCEPT ![swaps[s].oldTarget].destroy = @ + 1 ]
                           ELSE tables
              /\ instance' = IF swaps[s].oldTarget # 0 THEN 0 ELSE instance
         ELSE /\ tables' = Append(tables, createTarget(runtimeConfig))
              /\ swaps' = [ swaps EXCEPT ![s].pc = "created",
                                         ![s].config = runtimeConfig,
                                         ![s].newTarget = Len(tables) + 1 ]
              /\ instance' = instance
    /\ UNCHANGED << config, CONFIG, ready, environmentObserver, destroyed,
                    handlers, operations, notified, changed >>

\* createTarget resumes once the configuration is ready: it reads the runtime
\* configuration and builds the table. createTable throws when no constructor
\* is registered for the strategy, which rejects updateTarget.
CreateTarget(s) ==
    /\ swaps[s].pc = "createTarget"
    /\ ready
    /\ LET runtimeConfig == getRuntimeConfig(config, CONFIG) IN
         IF targetConstructors(runtimeConfig.cachingStrategy) = Undefined
         THEN /\ swaps' = [ swaps EXCEPT ![s].pc = "createTargetFailed",
                                         ![s].config = runtimeConfig ]
              /\ tables' = tables
         ELSE /\ tables' = Append(tables, createTarget(runtimeConfig))
              /\ swaps' = [ swaps EXCEPT ![s].pc = "created",
                                         ![s].config = runtimeConfig,
                                         ![s].newTarget = Len(tables) + 1 ]
    /\ UNCHANGED << config, CONFIG, ready, environmentObserver, destroyed,
                    instance, handlers, operations, notified, changed >>

\* updateTarget with a slip: newTarget.initialize() is called together with
\* oldTarget.destroy(), before the latter is awaited.
DestroyAndInitialize(s) ==
    /\ swaps[s].pc = "created"
    /\ IF swaps[s].oldTarget # 0
       THEN /\ tables' = [ tables EXCEPT ![swaps[s].oldTarget].destroy = @ + 1,
                                          ![swaps[s].newTarget].initialize = "pending" ]
            /\ swaps' = [ swaps EXCEPT ![s].pc = "destroy" ]
       ELSE /\ tables' = [ tables EXCEPT ![swaps[s].newTarget].initialize = "pending" ]
            /\ swaps' = [ swaps EXCEPT ![s].pc = "initialize" ]
    /\ UNCHANGED << config, CONFIG, ready, environmentObserver, destroyed,
                    instance, handlers, operations, notified, changed >>

\* updateTarget resumes with newTarget: if (oldTarget) it calls
\* oldTarget.destroy() and awaits it, otherwise it calls newTarget.initialize()
\* and awaits it.
DestroyOrInitialize(s) ==
    /\ swaps[s].pc = "created"
    /\ IF swaps[s].oldTarget # 0
       THEN /\ tables' = [ tables EXCEPT ![swaps[s].oldTarget].destroy = @ + 1 ]
            /\ swaps' = [ swaps EXCEPT ![s].pc = "destroy" ]
       ELSE /\ tables' = [ tables EXCEPT ![swaps[s].newTarget].initialize = "pending" ]
            /\ swaps' = [ swaps EXCEPT ![s].pc = "initialize" ]
    /\ UNCHANGED << config, CONFIG, ready, environmentObserver, destroyed,
                    instance, handlers, operations, notified, changed >>

\* updateTarget with a slip: once oldTarget.destroy() has resolved, the new
\* target is put in the handle before its initialize() is awaited.
ResetInstanceInstalls(s) ==
    /\ swaps[s].pc = "destroy"
    /\ setInstance(swaps[s].newTarget)
    /\ tables' = [ tables EXCEPT ![swaps[s].newTarget].initialize = "pending" ]
    /\ swaps' = [ swaps EXCEPT ![s].pc = "initialize" ]
    /\ UNCHANGED << config, CONFIG, ready, environmentObserver, destroyed,
                    notified, changed >>

\* oldTarget.destroy() has resolved: this.target.resetInstance(), then
\* newTarget.initialize() is called and awaited.
ResetInstance(s) ==
    /\ swaps[s].pc = "destroy"
    /\ resetInstance
    /\ tables' = [ tables EXCEPT ![swaps[s].newTarget].initialize = "pending" ]
    /\ swaps' = [ swaps EXCEPT ![s].pc = "initialize" ]
    /\ UNCHANGED << config, CONFIG, ready, environmentObserver, destroyed,
                    handlers, operations, notified, changed >>

\* newTarget.initialize() has resolved: this.target.setInstance(newTarget).
\* When the swap is the one of initialize(), initialize() resolves with it.
SetInstance(s) ==
    /\ swaps[s].pc = "initialize"
    /\ tables' = [ tables EXCEPT ![swaps[s].newTarget].initialize = "done" ]
    /\ setInstance(swaps[s].newTarget)
    /\ swaps' = [ swaps EXCEPT ![s].pc = "done" ]
    /\ UNCHANGED << config, CONFIG, ready, environmentObserver, destroyed,
                    notified, changed >>

\* newTarget.initialize() has rejected: updateTarget rejects with its error.
InitializeFails(s) ==
    /\ swaps[s].pc = "initialize"
    /\ tables' = [ tables EXCEPT ![swaps[s].newTarget].initialize = "failed" ]
    /\ swaps' = [ swaps EXCEPT ![s].pc = "initializeFailed" ]
    /\ UNCHANGED << config, CONFIG, ready, environmentObserver, destroyed,
                    instance, handlers, operations, notified, changed >>

(* ----------------------- initialize and destroy ----------------------- *)

\* initialize(): registers the observer, then calls updateTarget and awaits it.
Initialize ==
    /\ swaps = << >>
    /\ ~destroyed
    /\ environmentObserver' = TRUE
    /\ swaps' = Append(swaps, NewSwap("initialize"))
    /\ UNCHANGED << config, CONFIG, ready, destroyed, instance, tables,
                    handlers, operations, notified, changed >>

\* destroy() with a slip: the observer is left registered.
DestroyWithoutOff ==
    /\ swaps # << >>
    /\ ~destroyed
    /\ destroyed' = TRUE
    /\ UNCHANGED << config, CONFIG, ready, environmentObserver, instance, tables,
                    swaps, handlers, operations, notified, changed >>

\* destroy() with more than the code has: it also calls destroy() on the
\* table in the handle and clears the handle.
DestroyWithTarget ==
    /\ swaps # << >>
    /\ ~destroyed
    /\ environmentObserver' = FALSE
    /\ destroyed' = TRUE
    /\ tables' = IF instance # 0
                 THEN [ tables EXCEPT ![instance].destroy = @ + 1 ]
                 ELSE tables
    /\ instance' = 0
    /\ UNCHANGED << config, CONFIG, ready, swaps, handlers, operations,
                    notified, changed >>

\* destroy(): this.environmentObserver?.off()
Destroy ==
    /\ swaps # << >>
    /\ ~destroyed
    /\ environmentObserver' = FALSE
    /\ destroyed' = TRUE
    /\ UNCHANGED << config, CONFIG, ready, instance, tables, swaps, handlers,
                    operations, notified, changed >>

(* ----------------------- the environment observer --------------------- *)

\* The callback at its first await, the one of getRuntimeConfig.
NewHandler ==
    [ pc |-> "getRuntimeConfig", config |-> getConfigDefaults, target |-> 0,
      result |-> FALSE ]

\* CoreConfigProvider.ENVIRONMENT_UPDATED is triggered. A registered observer
\* is called and runs up to the await of getRuntimeConfig. Events triggered
\* before initialize() reach no observer of this table and are left out.
Notify ==
    /\ swaps # << >>
    /\ Budget
    /\ notified' = notified + 1
    /\ handlers' = IF environmentObserver
                   THEN handlers (+) SetToBag({ NewHandler })
                   ELSE handlers
    /\ UNCHANGED << config, CONFIG, ready, environmentObserver, destroyed,
                    instance, tables, swaps, operations, changed >>

\* shouldUpdateTarget: getRuntimeConfig resolves, then this.target.getInstance()
\* is awaited.
HandlerGetInstance(h) ==
    /\ h.pc = "getRuntimeConfig"
    /\ ready
    /\ handlers' = Replace(handlers, h,
          getInstance([ h EXCEPT !.config = getRuntimeConfig(config, CONFIG) ]))
    /\ UNCHANGED << config, CONFIG, ready, environmentObserver, destroyed,
                    instance, tables, swaps, operations, notified, changed >>

\* shouldUpdateTarget resumes with the target and returns; the callback then
\* returns when the result is false, and calls this.updateTarget() without
\* awaiting it otherwise. The locals of a callback that has returned are gone.
HandlerUpdateTarget(h) ==
    /\ h.pc = "resolved"
    /\ LET result == shouldUpdateTarget(h.config, tables[h.target]) IN
         /\ handlers' = Replace(handlers, h,
                                [ NewHandler EXCEPT !.pc = "done", !.result = result ])
         /\ swaps' = IF result THEN Append(swaps, NewSwap("observer")) ELSE swaps
    /\ UNCHANGED << config, CONFIG, ready, environmentObserver, destroyed,
                    instance, tables, operations, notified, changed >>

(* --------------------------- data operations -------------------------- *)

\* A data operation at the call of getInstance(); `queued` keeps whether the
\* handle held no instance at that call.
NewOperation ==
    [ pc |-> "getInstance", target |-> 0, queued |-> instance = 0 ]

\* A data operation with a slip: the method is called on this.target.instance,
\* which fails when the handle holds no instance.
IssueOnInstance ==
    /\ Budget
    /\ operations' = operations (+)
          SetToBag({ IF instance # 0
                     THEN getInstance(NewOperation)
                     ELSE [ NewOperation EXCEPT !.pc = "rejected" ] })
    /\ UNCHANGED << config, CONFIG, ready, environmentObserver, destroyed,
                    instance, tables, swaps, handlers, notified, changed >>

\* getMany, getManyWhere, getOne, getOneByPrimaryKey, reduce, hasAny, count,
\* insert, update, updateWhere, delete, deleteByPrimaryKey: each calls the
\* method of the same name on this.target, which awaits getInstance().
Issue ==
    /\ Budget
    /\ operations' = operations (+) SetToBag({ getInstance(NewOperation) })
    /\ UNCHANGED << config, CONFIG, ready, environmentObserver, destroyed,
                    instance, tables, swaps, handlers, notified, changed >>

\* The operation resumes with the instance and calls the method on it.
Forward(o) ==
    /\ o.pc = "resolved"
    /\ operations' = Replace(operations, o, [ o EXCEPT !.pc = "forwarded" ])
    /\ UNCHANGED << config, CONFIG, ready, environmentObserver, destroyed,
                    instance, tables, swaps, handlers, notified, changed >>

(* -------------------------------- Next -------------------------------- *)

Next ==
    \/ ConfigReady
    \/ SetConfig
    \/ Initialize
    \/ Destroy
    \/ Notify
    \/ Issue
    \/ \E s \in DOMAIN swaps : CreateTarget(s)
    \/ \E s \in DOMAIN swaps : DestroyOrInitialize(s)
    \/ \E s \in DOMAIN swaps : ResetInstance(s)
    \/ \E s \in DOMAIN swaps : SetInstance(s)
    \/ \E s \in DOMAIN swaps : InitializeFails(s)
    \/ \E h \in BagToSet(handlers) : HandlerGetInstance(h)
    \/ \E h \in BagToSet(handlers) : HandlerUpdateTarget(h)
    \/ \E o \in BagToSet(operations) : Forward(o)

Spec == Init /\ [][Next]_vars

(* ------------------------- shorthands for claims ---------------------- *)

Handlers == BagToSet(handlers)
Operations == BagToSet(operations)

\* The step in which the callback h resumes from getInstance() and returns,
\* shouldUpdateTarget having returned r.
Decides(h, r) ==
    /\ h \in Handlers
    /\ h.pc = "resolved"
    /\ handlers' = Replace(handlers, h, [ NewHandler EXCEPT !.pc = "done", !.result = r ])

\* The step in which the callback calls updateTarget.
CallsUpdateTarget ==
    /\ Len(swaps') = Len(swaps) + 1
    /\ swaps'[Len(swaps')] = NewSwap("observer")

\* The step in which the execution s of updateTarget installs its new target.
Installs(s) ==
    /\ swaps[s].pc = "initialize"
    /\ swaps'[s].pc = "done"

\* The step in which the execution s of updateTarget clears the handle.
Clears(s) ==
    /\ swaps[s].pc = "destroy"
    /\ swaps'[s].pc = "initialize"

\* The runtime configuration asks for what the table is.
Matches(runtimeConfig, table) ==
    /\ table.constructor = targetConstructors(runtimeConfig.cachingStrategy)
    /\ table.debug = runtimeConfig.debug

InProgress == { "createTarget", "created", "destroy", "initialize" }

(* ------------------------------- claims ------------------------------- *)

\* C1 (strategy-change swap). When the callback of a notification finds a
\* target whose implementation is not the one registered for the resolved
\* strategy, it calls updateTarget; when an updateTarget called by the
\* callback has run to its end, the active target is a new table, never
\* installed before and other than the old one, built by the constructor of
\* the strategy that updateTarget resolved, and destroy() had been called on
\* the old target before the handle was cleared of it.
C1_StrategyChangeSwap ==
    [][ /\ \A h \in Handlers : \A r \in BOOLEAN :
              ( /\ Decides(h, r)
                /\ targetConstructors(h.config.cachingStrategy) # Undefined
                /\ tables[h.target].constructor
                      # targetConstructors(h.config.cachingStrategy) )
              => r /\ CallsUpdateTarget
        /\ \A s \in DOMAIN swaps :
              ( swaps[s].by = "observer" /\ Clears(s) )
              => /\ tables[swaps[s].oldTarget].destroy >= 1
                 /\ instance' = 0
        /\ \A s \in DOMAIN swaps :
              ( swaps[s].by = "observer" /\ Installs(s) )
              => /\ instance' = swaps[s].newTarget
                 /\ instance' # swaps[s].oldTarget
                 /\ instance' # instance
                 /\ tables[instance'].initialize = "pending"
                 /\ tables'[instance'].constructor
                      = targetConstructors(swaps[s].config.cachingStrategy)
                 /\ swaps[s].oldTarget # 0
                      => tables'[swaps[s].oldTarget].destroy >= 1
      ]_vars

\* A swap from one strategy to another has run to its end.
C1_Witness ==
    \E s \in DOMAIN swaps :
        /\ swaps[s].by = "observer"
        /\ swaps[s].pc = "done"
        /\ swaps[s].oldTarget # 0
        /\ instance = swaps[s].newTarget
        /\ tables[swaps[s].oldTarget].constructor # tables[instance].constructor
        /\ tables[instance].constructor = targetConstructors(Eager)
        /\ tables[swaps[s].oldTarget].destroy >= 1

\* C2 (no spurious swap). When the callback of a notification resolved a
\* configuration with the strategy and the debug flag of the target it got,
\* shouldUpdateTarget returns false and the callback returns without calling
\* updateTarget: no table is created, destroyed or installed in that step.
C2_NoSpuriousSwap ==
    [][ \A h \in Handlers : \A r \in BOOLEAN :
            ( Decides(h, r) /\ Matches(h.config, tables[h.target]) )
            => /\ ~r
               /\ UNCHANGED << instance, tables, swaps >>
      ]_vars

\* A callback has returned without a swap while a debug-wrapped target that
\* matches the configuration is installed.
C2_Witness ==
    /\ \E h \in Handlers : h.pc = "done" /\ ~h.result
    /\ instance # 0
    /\ tables[instance].debug
    /\ Matches(getRuntimeConfig(config, CONFIG), tables[instance])

\* C3 (debug-on detection). When the callback of a notification got a target
\* that is a bare table of the resolved strategy while the resolved
\* configuration has debug on, it calls updateTarget; and a target installed
\* by an updateTarget that resolved debug on is a debug wrapper around a table
\* of the constructor registered for the strategy it resolved.
C3_DebugOnDetection ==
    [][ /\ \A h \in Handlers : \A r \in BOOLEAN :
              ( /\ Decides(h, r)
                /\ ~tables[h.target].debug
                /\ tables[h.target].constructor
                      = targetConstructors(h.config.cachingStrategy)
                /\ h.config.debug )
              => r /\ CallsUpdateTarget
        /\ \A s \in DOMAIN swaps :
              ( swaps[s].by = "observer" /\ Installs(s) /\ swaps[s].config.debug )
              => /\ instance' = swaps[s].newTarget
                 /\ tables'[instance'].debug
                 /\ tables'[instance'].constructor
                      = targetConstructors(swaps[s].config.cachingStrategy)
      ]_vars

\* A bare table has been replaced by a debug wrapper of the same strategy.
C3_Witness ==
    \E s \in DOMAIN swaps :
        /\ swaps[s].by = "observer"
        /\ swaps[s].pc = "done"
        /\ swaps[s].oldTarget # 0
        /\ instance = swaps[s].newTarget
        /\ ~tables[swaps[s].oldTarget].debug
        /\ tables[instance].debug
        /\ tables[instance].constructor = tables[swaps[s].oldTarget].constructor

\* C4 (single initial target). initialize() registers the observer and calls
\* updateTarget without a call of shouldUpdateTarget having returned; when
\* its updateTarget has run to its end, the handle holds the one table created
\* so far, initialize() of that table has resolved, and the table has the
\* strategy and the debug wrapping of the configuration that updateTarget
\* resolved.
C4_SingleInitialTarget ==
    [][ /\ ( swaps = << >> /\ swaps' # << >> )
            => /\ environmentObserver'
               /\ swaps' = << NewSwap("initialize") >>
               /\ handlers' = EmptyBag
        /\ \A s \in DOMAIN swaps :
              ( swaps[s].by = "initialize" /\ Installs(s) )
              => /\ s = 1
                 /\ swaps[s].oldTarget = 0
                 /\ Len(tables') = 1
                 /\ instance' = 1
                 /\ tables'[1].initialize = "done"
                 /\ Matches(swaps[s].config, tables'[1])
                 /\ \A h \in Handlers : h.pc \in { "getRuntimeConfig", "getInstance" }
      ]_vars

\* initialize() has resolved with a debug-wrapped eager table installed while
\* a notification was waiting for the instance.
C4_Witness ==
    /\ Len(swaps) = 1
    /\ swaps[1].pc = "done"
    /\ instance = 1
    /\ tables[1].debug
    /\ tables[1].constructor = targetConstructors(Eager)
    /\ \E h \in Handlers : h.pc = "resolved" /\ h.target = 1

\* C5 (destroy of the proxy). A notification triggered after destroy() calls
\* no callback: no execution of the callback or of updateTarget starts, no
\* table is created and the handle is left as it is.
C5_DestroyUnsubscribes ==
    [][ ( destroyed /\ notified' # notified )
        => UNCHANGED << handlers, swaps, tables, instance >>
      ]_vars

\* A notification was triggered after destroy() while the configuration asked
\* for another target than the installed one, and nothing is in progress.
C5_Witness ==
    /\ destroyed
    /\ notified > BagCardinality(handlers)
    /\ instance # 0
    /\ shouldUpdateTarget(getRuntimeConfig(config, CONFIG), tables[instance])
    /\ \A h \in Handlers : h.pc = "done"
    /\ \A s \in DOMAIN swaps : swaps[s].pc \notin InProgress

\* An operation that waits for the instance.
Queued(o) == o.pc = "getInstance"

\* The operation o once getInstance() has resolved with the table.
Bound(o, table) == [ o EXCEPT !.pc = "resolved", !.target = table ]

\* C6 (deferral in the gap). A data operation issued while the handle holds
\* no instance is neither rejected nor dropped: it waits, and only while the
\* handle holds no instance; the step that installs a table resumes every
\* waiting operation with that table; an operation that has been resumed with
\* a table can always go on, and is forwarded to that table.
C6_GapDeferral ==
    /\ [](\A o \in Operations : o.pc = "resolved" => ENABLED Forward(o))
    /\ [][ /\ BagCardinality(operations') >= BagCardinality(operations)
           /\ \A o \in BagToSet(operations') :
                 /\ o.pc \in { "getInstance", "resolved", "forwarded" }
                 /\ Queued(o) => o.queued /\ instance' = 0
           /\ ( instance = 0 /\ BagCardinality(operations') > BagCardinality(operations) )
               => CopiesIn(NewOperation, operations')
                    = CopiesIn(NewOperation, operations) + 1
           /\ \A o \in Operations :
                 ( Queued(o) /\ instance' # 0 )
                 => CopiesIn(Bound(o, instance'), operations') >= CopiesIn(o, operations)
           /\ \A o \in Operations :
                 o.pc = "resolved"
                 => CopiesIn(o, operations')
                      + CopiesIn([ o EXCEPT !.pc = "forwarded" ], operations')
                    >= CopiesIn(o, operations)
                      + CopiesIn([ o EXCEPT !.pc = "forwarded" ], operations)
         ]_vars

\* An operation issued between resetInstance and setInstance of a swap has
\* been forwarded to the table that the swap installed.
C6_Witness ==
    \E o \in Operations : \E s \in DOMAIN swaps :
        /\ o.pc = "forwarded"
        /\ o.queued
        /\ swaps[s].by = "observer"
        /\ swaps[s].oldTarget # 0
        /\ swaps[s].pc = "done"
        /\ o.target = swaps[s].newTarget

\* C7 (no partially initialized target). The handle never holds a table
\* whose initialize() has not been called, is pending or has failed, and
\* getInstance() of a data operation never resolves with such a table, so an
\* operation is forwarded only to a table whose initialize() has resolved.
C7_NoPartiallyInitializedTarget ==
    /\ instance # 0 => tables[instance].initialize = "done"
    /\ \A o \in Operations :
          o.pc \in { "resolved", "forwarded" }
          => tables[o.target].initialize = "done"

\* An operation is forwarded to the old target while the initialize() of the
\* new target of a swap is pending.
C7_Witness ==
    \E o \in Operations : \E s \in DOMAIN swaps :
        /\ o.pc = "forwarded"
        /\ swaps[s].pc = "initialize"
        /\ swaps[s].oldTarget = o.target
        /\ tables[swaps[s].newTarget].initialize = "pending"

\* C8 (each replaced instance is destroyed first, and once). Whenever a table
\* that the handle holds stops being the active target, destroy() has been
\* called on it, and destroy() is called on no table more than once.
C8_DestroyedOnceBeforeDiscarded ==
    [][ /\ ( instance # 0 /\ instance' # instance )
            => tables[instance].destroy >= 1
        /\ \A t \in DOMAIN tables' : tables'[t].destroy <= 1
      ]_vars

\* C9 (swaps are serial). At most one execution of updateTarget is in
\* progress at any time.
C9_SwapsAreSerial ==
    Cardinality({ s \in DOMAIN swaps : swaps[s].pc \in InProgress }) <= 1

\* C10 (a failed initialize() leaves an active target). Once initialize() of
\* the new target of a swap that replaced a target has failed, the handle
\* holds an instance.
C10_FailedInitializeKeepsTarget ==
    \A s \in DOMAIN swaps :
        ( swaps[s].pc = "initializeFailed" /\ swaps[s].oldTarget # 0 )
        => instance # 0

(* ------------------- forwarding of the data operations ---------------- *)

\* Data operations called in one behaviour of SpecForward.
MaxCalls == 2

\* The data operations of the proxy.
Methods ==
    { "getMany", "getManyWhere", "getOne", "getOneByPrimaryKey", "reduce",
      "hasAny", "count", "insert", "update", "updateWhere", "delete",
      "deleteByPrimaryKey" }

\* The parameters each data operation of the proxy declares.
Parameters(method) ==
    CASE method = "getMany" -> << "conditions", "options" >>
      [] method = "getManyWhere" -> << "conditions" >>
      [] method = "getOne" -> << "conditions", "options" >>
      [] method = "getOneByPrimaryKey" -> << "primaryKey" >>
      [] method = "reduce" -> << "reducer", "conditions" >>
      [] method = "hasAny" -> << "conditions" >>
      [] method = "count" -> << "conditions" >>
      [] method = "insert" -> << "record" >>
      [] method = "update" -> << "updates", "conditions" >>
      [] method = "updateWhere" -> << "updates", "conditions" >>
      [] method = "delete" -> << "conditions" >>
      [] method = "deleteByPrimaryKey" -> << "primaryKey" >>

\* The call on a target: a method and the arguments it is given.
Call(method, arguments) == [ method |-> method, arguments |-> arguments ]

\* The body of a data operation with a slip: getOne is answered by getMany
\* and updateWhere loses its conditions.
TargetCallSlipped(method) ==
    CASE method = "getMany" -> Call("getMany", << "conditions", "options" >>)
      [] method = "getManyWhere" -> Call("getManyWhere", << "conditions" >>)
      [] method = "getOne" -> Call("getMany", << "conditions", "options" >>)
      [] method = "getOneByPrimaryKey" -> Call("getOneByPrimaryKey", << "primaryKey" >>)
      [] method = "reduce" -> Call("reduce", << "reducer", "conditions" >>)
      [] method = "hasAny" -> Call("hasAny", << "conditions" >>)
      [] method = "count" -> Call("count", << "conditions" >>)
      [] method = "insert" -> Call("insert", << "record" >>)
      [] method = "update" -> Call("update", << "updates", "conditions" >>)
      [] method = "updateWhere" -> Call("updateWhere", << "updates" >>)
      [] method = "delete" -> Call("delete", << "conditions" >>)
      [] method = "deleteByPrimaryKey" -> Call("deleteByPrimaryKey", << "primaryKey" >>)

\* The body of each data operation: the call it makes on this.target.
TargetCall(method) ==
    CASE method = "getMany" -> Call("getMany", << "conditions", "options" >>)
      [] method = "getManyWhere" -> Call("getManyWhere", << "conditions" >>)
      [] method = "getOne" -> Call("getOne", << "conditions", "options" >>)
      [] method = "getOneByPrimaryKey" -> Call("getOneByPrimaryKey", << "primaryKey" >>)
      [] method = "reduce" -> Call("reduce", << "reducer", "conditions" >>)
      [] method = "hasAny" -> Call("hasAny", << "conditions" >>)
      [] method = "count" -> Call("count", << "conditions" >>)
      [] method = "insert" -> Call("insert", << "record" >>)
      [] method = "update" -> Call("update", << "updates", "conditions" >>)
      [] method = "updateWhere" -> Call("updateWhere", << "updates", "conditions" >>)
      [] method = "delete" -> Call("delete", << "conditions" >>)
      [] method = "deleteByPrimaryKey" -> Call("deleteByPrimaryKey", << "primaryKey" >>)

\* What a method of a table can settle with: its value, or one of the errors
\* of the table interface.
Outcomes(method) ==
    { "value", "StorageError" }
      \cup ( IF method \in { "getOne", "getOneByPrimaryKey" }
             THEN { "NotFoundError" } ELSE { } )
      \cup ( IF method = "insert" THEN { "ConflictError" } ELSE { } )

\* `return this.target.method(...)`: the operation of the proxy settles as
\* the call on the target has settled.
Returned(outcome) == outcome

\* A proxy whose initialize() has resolved under some settings.
InitForward ==
    /\ config \in { Constructor(c) : c \in ConstructorConfigs }
    /\ CONFIG \in { e \in Environments :
           targetConstructors(getRuntimeConfig(config, e).cachingStrategy) # Undefined }
    /\ ready = TRUE
    /\ environmentObserver = TRUE
    /\ destroyed = FALSE
    /\ instance = 1
    /\ tables = << [ createTarget(getRuntimeConfig(config, CONFIG))
                       EXCEPT !.initialize = "done" ] >>
    /\ swaps = << [ pc |-> "done", by |-> "initialize", oldTarget |-> 0,
                    newTarget |-> 1, config |-> getRuntimeConfig(config, CONFIG) ] >>
    /\ handlers = EmptyBag
    /\ operations = EmptyBag
    /\ notified = 0
    /\ changed = 0

\* A data operation of the proxy is called: it calls the method on
\* this.target, which awaits getInstance().
IssueMethod ==
    /\ BagCardinality(operations) < MaxCalls
    /\ \E method \in Methods :
          operations' = operations (+) SetToBag({ getInstance(
              [ pc |-> "getInstance", target |-> 0, queued |-> instance = 0,
                method |-> method, arguments |-> Parameters(method),
                call |-> Call("", << >>), outcome |-> "", returned |-> "" ]) })
    /\ UNCHANGED << config, CONFIG, ready, environmentObserver, destroyed,
                    instance, tables, swaps, handlers, notified, changed >>

\* The operation resumes with the instance and makes its call on it.
ForwardMethod(o) ==
    /\ o.pc = "resolved"
    /\ operations' = Replace(operations, o,
          [ o EXCEPT !.pc = "forwarded", !.call = TargetCall(o.method) ])
    /\ UNCHANGED << config, CONFIG, ready, environmentObserver, destroyed,
                    instance, tables, swaps, handlers, notified, changed >>

\* The call on the target settles and the operation of the proxy with it.
Settle(o) ==
    /\ o.pc = "forwarded"
    /\ \E outcome \in Outcomes(o.call.method) :
          operations' = Replace(operations, o,
              [ o EXCEPT !.pc = "settled", !.outcome = outcome,
                         !.returned = Returned(outcome) ])
    /\ UNCHANGED << config, CONFIG, ready, environmentObserver, destroyed,
                    instance, tables, swaps, handlers, notified, changed >>

NextForward ==
    \/ IssueMethod
    \/ \E o \in BagToSet(operations) : ForwardMethod(o)
    \/ \E o \in BagToSet(operations) : Settle(o)

SpecForward == InitForward /\ [][NextForward]_vars

\* C11 (forwarding transparency). Every data operation called on the proxy
\* calls, on the table its getInstance() resolved with (the active target),
\* the method of its own name with its own arguments in their order, and
\* settles with the value or the error that call settled with, whatever the
\* strategy and the debug wrapping of the target and whatever operations
\* were called before.
C11_ForwardingTransparency ==
    \A o \in Operations :
        /\ o.pc \in { "resolved", "forwarded", "settled" } => o.target = instance
        /\ o.pc \in { "forwarded", "settled" }
             => o.call = Call(o.method, o.arguments)
        /\ o.pc = "settled"
             => /\ o.outcome \in Outcomes(o.method)
                /\ o.returned = o.outcome

\* An updateWhere and a getOne have gone through a debug-wrapped lazy or
\* eager target, one of them settled with an error.
C11_Witness ==
    /\ tables[instance].debug
    /\ \E o \in Operations :
          o.pc = "settled" /\ o.method = "getOne" /\ o.returned = "NotFoundError"
    /\ \E o \in Operations :
          o.pc = "settled" /\ o.method = "updateWhere" /\ o.returned = "value"

(* ---------------------- resolution of the settings -------------------- *)

\* Every Partial<CoreDatabaseConfiguration> over the registered strategies.
PartialConfigs ==
    { PartialConfig(keys, cachingStrategy, debug) :
        keys \in SUBSET { "cachingStrategy", "debug" },
        cachingStrategy \in CoreDatabaseCachingStrategy,
        debug \in BOOLEAN }

\* A proxy constructed with any overrides under any settings of every table
\* and of this table, before the configuration subsystem is ready.
InitConfig ==
    /\ config \in { Constructor(overrides) : overrides \in PartialConfigs }
    /\ CONFIG \in { Constants(global, table) :
                       global \in PartialConfigs, table \in PartialConfigs }
    /\ ready = FALSE
    /\ environmentObserver = FALSE
    /\ destroyed = FALSE
    /\ instance = 0
    /\ tables = << >>
    /\ swaps = << >>
    /\ handlers = EmptyBag
    /\ operations = EmptyBag
    /\ notified = 0
    /\ changed = 0

\* getRuntimeConfig() is called and awaits CoreConfig.ready().
GetRuntimeConfig ==
    /\ BagCardinality(handlers) < MaxCalls
    /\ handlers' = handlers (+) SetToBag({ NewHandler })
    /\ UNCHANGED << config, CONFIG, ready, environmentObserver, destroyed,
                    instance, tables, swaps, operations, notified, changed >>

\* CoreConfig.ready() has resolved: the call returns the merged settings.
GetRuntimeConfigReturns(h) ==
    /\ ready
    /\ h.pc = "getRuntimeConfig"
    /\ handlers' = Replace(handlers, h,
          [ h EXCEPT !.pc = "returned",
                     !.config = getRuntimeConfig(config, CONFIG) ])
    /\ UNCHANGED << config, CONFIG, ready, environmentObserver, destroyed,
                    instance, tables, swaps, operations, notified, changed >>

NextConfig ==
    \/ ConfigReady
    \/ GetRuntimeConfig
    \/ \E h \in BagToSet(handlers) : GetRuntimeConfigReturns(h)

SpecConfig == InitConfig /\ [][NextConfig]_vars

\* The value of a key taken from the last of the sources, lowest precedence
\* first, that defines it.
Precedence(key, sources) ==
    LET defining == { i \in 1..Len(sources) : key \in sources[i].keys }
        highest == CHOOSE i \in defining : \A j \in defining : j <= i
    IN  sources[highest][key]

\* C12 (precedence of the settings). Whatever overrides the constructor was
\* given, each key of the settings getRuntimeConfig() returns has the value
\* of the highest source that defines it, in the order defaults
\* { none, false }, constructor overrides, settings of every table, settings
\* of this table; a source that does not define the key leaves the lower
\* value. The call returns only once the configuration subsystem is ready.
C12_ConfigPrecedence ==
    \A h \in Handlers :
        h.pc = "returned"
          => /\ ready
             /\ \A overrides \in PartialConfigs :
                   config = Constructor(overrides)
                     => \A key \in { "cachingStrategy", "debug" } :
                           h.config[key] =
                             Precedence(key, << getConfigDefaults, overrides,
                                                CONFIG.databaseOptimizations,
                                                CONFIG.databaseTableOptimizations >>)

\* Four sources disagree on the strategy and this table's settings win, while
\* debug, which only the settings of every table define, comes from there.
C12_Witness ==
    /\ config = Constructor(PartialConfig({ "cachingStrategy" }, Lazy, FALSE))
    /\ CONFIG = Constants(PartialConfig({ "cachingStrategy", "debug" }, Eager, TRUE),
                          PartialConfig({ "cachingStrategy" }, None, FALSE))
    /\ \E h \in Handlers :
          /\ h.pc = "returned"
          /\ h.config.cachingStrategy = None
          /\ h.config.debug = TRUE

\* C13 (debug-off is not detected). When the callback of a notification got
\* a debug-wrapped target whose implementation is the one registered for the
\* resolved strategy while the resolved configuration has debug off,
\* shouldUpdateTarget returns false: the callback calls no updateTarget and
\* the same wrapped table stays installed. A callback that got a wrapped
\* target calls updateTarget only when the resolved strategy asks for
\* another implementation.
C13_DebugOffNotDetected ==
    [][ \A h \in Handlers : \A r \in BOOLEAN :
            ( Decides(h, r) /\ tables[h.target].debug )
            => /\ ( /\ ~h.config.debug
                    /\ tables[h.target].constructor
                          = targetConstructors(h.config.cachingStrategy) )
                  => ( ~r /\ UNCHANGED << instance, tables, swaps >> )
               /\ r => tables[h.target].constructor
                          # targetConstructors(h.config.cachingStrategy)
      ]_vars

\* The settings went from debug on to debug off with the strategy unchanged,
\* a notification followed, its callback has returned without calling
\* updateTarget and the wrapped table of initialize() is still installed.
C13_Witness ==
    /\ changed = 2
    /\ notified = 1
    /\ \E h \in Handlers : h.pc = "done" /\ ~h.result
    /\ Len(swaps) = 1
    /\ instance = 1
    /\ tables[instance].debug
    /\ ~getRuntimeConfig(config, CONFIG).debug
    /\ tables[instance].constructor
          = targetConstructors(getRuntimeConfig(config, CONFIG).cachingStrategy)

\* C14 (order of the steps of a swap). Every step of an execution of
\* updateTarget is the next of: the old target is captured once and kept;
\* the new target is built from the settings as they are at that step; with
\* an old target, destroy() is called on it while the new one is untouched,
\* and when it has resolved the handle is cleared and initialize() is called
\* on the new target; without one, initialize() is called at once and the
\* handle is left alone; the new target is installed when its initialize()
\* has resolved. So initialize() of the new target has not started while
\* destroy() of the old one is pending, and the handle is only ever cleared
\* by an execution that captured an old target.
C14_SwapStepOrder ==
    [][ /\ \A s \in DOMAIN swaps :
            LET old == swaps[s].oldTarget
                new == swaps'[s].newTarget
            IN  /\ swaps'[s].oldTarget = old
                /\ swaps[s].newTarget # 0 => new = swaps[s].newTarget
                /\ swaps'[s].pc # swaps[s].pc =>
                      CASE swaps[s].pc = "createTarget" ->
                             \/ /\ swaps'[s].pc = "createTargetFailed"
                                /\ UNCHANGED << tables, instance >>
                             \/ /\ swaps'[s].pc = "created"
                                /\ new = Len(tables) + 1
                                /\ tables' = Append(tables,
                                      createTarget(getRuntimeConfig(config, CONFIG)))
                                /\ UNCHANGED instance
                        [] swaps[s].pc = "created" ->
                             IF old # 0
                             THEN /\ swaps'[s].pc = "destroy"
                                  /\ tables'[old].destroy = tables[old].destroy + 1
                                  /\ tables'[new].initialize = "none"
                                  /\ UNCHANGED instance
                             ELSE /\ swaps'[s].pc = "initialize"
                                  /\ tables'[new].initialize = "pending"
                                  /\ UNCHANGED instance
                        [] swaps[s].pc = "destroy" ->
                             /\ swaps'[s].pc = "initialize"
                             /\ old # 0
                             /\ tables[old].destroy >= 1
                             /\ instance' = 0
                             /\ tables[new].initialize = "none"
                             /\ tables'[new].initialize = "pending"
                        [] swaps[s].pc = "initialize" ->
                             \/ /\ swaps'[s].pc = "done"
                                /\ tables'[new].initialize = "done"
                                /\ instance' = new
                             \/ /\ swaps'[s].pc = "initializeFailed"
                                /\ UNCHANGED instance
                        [] OTHER -> FALSE
        /\ ( instance # 0 /\ instance' = 0 )
             => \E s \in DOMAIN swaps : Clears(s) /\ swaps[s].oldTarget # 0
      ]_vars

\* The execution of initialize(), which captured no target, and one called
\* by the callback, which captured the first target, have both run to their
\* end: the old target is destroyed and the new one is installed.
C14_Witness ==
    /\ Len(swaps) >= 2
    /\ swaps[1].pc = "done" /\ swaps[1].oldTarget = 0
    /\ swaps[2].pc = "done" /\ swaps[2].oldTarget = 1
    /\ tables[1].destroy = 1
    /\ tables[swaps[2].newTarget].initialize = "done"
    /\ instance = swaps[2].newTarget

\* C15 (the configuration is never cached). No step changes this.config.
\* The configuration a callback resumes with from getRuntimeConfig, and the
\* one createTarget resumes with, is the merge of this.config with the
\* settings of every table and of this table as they are at that step; and
\* the table createTarget builds has the implementation and the debug
\* wrapping of the configuration createTarget resolved, whatever the
\* callback that called updateTarget had read.
C15_ConfigNeverCached ==
    [][ /\ UNCHANGED config
        /\ \A h \in Handlers : \A resumed \in BagToSet(handlers') :
              ( /\ h.pc = "getRuntimeConfig"
                /\ resumed.pc \in { "getInstance", "resolved" }
                /\ handlers' = Replace(handlers, h, resumed) )
              => resumed.config = getRuntimeConfig(config, CONFIG)
        /\ \A s \in DOMAIN swaps :
              ( swaps[s].pc = "createTarget" /\ swaps'[s].pc # "createTarget" )
              => /\ swaps'[s].config = getRuntimeConfig(config, CONFIG)
                 /\ swaps'[s].pc = "created"
                      => Matches(getRuntimeConfig(config, CONFIG),
                                 tables'[swaps'[s].newTarget])
      ]_vars

\* The callback got the bare table of the default strategy, so it called
\* updateTarget because it had read debug on; createTarget then resolved the
\* default strategy with debug off, and the table that updateTarget built
\* and installed is a bare one.
C15_Witness ==
    /\ Len(swaps) >= 2
    /\ swaps[2].by = "observer"
    /\ swaps[2].oldTarget = 1
    /\ tables[1].constructor = targetConstructors(None)
    /\ ~tables[1].debug
    /\ swaps[2].pc = "done"
    /\ swaps[2].config.cachingStrategy = None
    /\ ~swaps[2].config.debug
    /\ ~tables[swaps[2].newTarget].debug
    /\ tables[swaps[2].newTarget].constructor = targetConstructors(None)

\* The step in which the operation o calls its method on the table it got.
Forwards(o) ==
    /\ o \in Operations
    /\ o.pc = "resolved"
    /\ operations' = Replace(operations, o, [ o EXCEPT !.pc = "forwarded" ])

\* C16 (no operation reaches a destroyed target). A data operation never
\* calls its method on a table on which destroy() has been called, and a data
\* operation called while the handle holds a table on which updateTarget has
\* called destroy() does not get that table from getInstance().
C16_NoOperationOnDestroyedTarget ==
    [][ /\ \A o \in Operations : Forwards(o) => tables[o.target].destroy = 0
        /\ \A o \in BagToSet(operations') :
              ( /\ operations' = operations (+) SetToBag({ o })
                /\ o.pc = "resolved" )
              => tables[o.target].destroy = 0
      ]_vars

\* A live table: initialize() has been called on it and destroy() has not.
Live(t) == tables[t].initialize # "none" /\ tables[t].destroy = 0

\* C17 (at most one live target). At most one table is live, the handle
\* holds no table or a live one, and every table whose initialize() has
\* resolved is the one in the handle or has had destroy() called on it.
C17_AtMostOneLiveTarget ==
    /\ Cardinality({ t \in DOMAIN tables : Live(t) }) <= 1
    /\ instance # 0 => Live(instance)
    /\ \A t \in DOMAIN tables :
          tables[t].initialize = "done" => ( t = instance \/ tables[t].destroy >= 1 )

\* The step in which createTarget of the execution s of updateTarget throws.
CreateTargetFails(s) ==
    /\ swaps[s].pc = "createTarget"
    /\ swaps'[s].pc = "createTargetFailed"

\* C19 (a failed creation leaves the old target intact). The step in which
\* createTarget throws, for want of a constructor registered for the
\* resolved strategy, calls destroy() on no table and leaves the handle as it
\* is; the execution of updateTarget has ended with it and takes no step
\* afterwards, so it never destroys or clears anything; and a data operation
\* called while the handle still holds the old target of that execution gets
\* this table from getInstance().
C19_FailedCreationKeepsOldTarget ==
    [][ /\ \A s \in DOMAIN swaps :
              /\ CreateTargetFails(s)
                   => /\ UNCHANGED << instance, tables, handlers, operations >>
                      /\ targetConstructors(swaps'[s].config.cachingStrategy) = Undefined
              /\ swaps[s].pc = "createTargetFailed" => swaps'[s] = swaps[s]
        /\ \A o \in BagToSet(operations') :
              ( /\ operations' = operations (+) SetToBag({ o })
                /\ instance # 0
                /\ \E s \in DOMAIN swaps :
                      /\ swaps[s].pc = "createTargetFailed"
                      /\ swaps[s].oldTarget = instance )
              => o.pc = "resolved" /\ o.target = instance
      ]_vars

\* The settings name a strategy without a constructor; the updateTarget that
\* the callback called has failed in createTarget; the old table is still in
\* the handle, destroy() was not called on it, and a data operation has been
\* forwarded to it.
C19_Witness ==
    \E s \in DOMAIN swaps :
        /\ swaps[s].pc = "createTargetFailed"
        /\ swaps[s].by = "observer"
        /\ swaps[s].config.cachingStrategy = Unregistered
        /\ swaps[s].oldTarget # 0
        /\ instance = swaps[s].oldTarget
        /\ tables[instance].destroy = 0
        /\ Len(tables) = 1
        /\ \E o \in Operations : o.pc = "forwarded" /\ o.target = instance

\* C20 (destroy() of the proxy changes only the subscription). The step of
\* destroy() unregisters the observer and leaves the handle, the tables, the
\* callbacks, the executions of updateTarget and the data operations as they
\* are. After it every callback and every execution of updateTarget that is
\* in progress can still take its next step, and a data operation called
\* while the handle holds a table gets that table and can call its method
\* on it.
C20_DestroyOnlyUnsubscribes ==
    [][ /\ ( ~destroyed /\ destroyed' )
             => /\ ~environmentObserver'
                /\ UNCHANGED << config, instance, tables, swaps, handlers,
                                operations >>
        /\ destroyed
             => /\ \A h \in Handlers :
                      /\ ( h.pc = "getRuntimeConfig" /\ ready )
                           => ENABLED HandlerGetInstance(h)
                      /\ h.pc = "resolved" => ENABLED HandlerUpdateTarget(h)
                /\ \A s \in DOMAIN swaps :
                      /\ ( swaps[s].pc = "createTarget" /\ ready )
                           => ENABLED CreateTarget(s)
                      /\ swaps[s].pc = "created" => ENABLED DestroyOrInitialize(s)
                      /\ swaps[s].pc = "destroy" => ENABLED ResetInstance(s)
                      /\ swaps[s].pc = "initialize" => ENABLED SetInstance(s)
                /\ \A o \in BagToSet(operations') :
                      ( operations' = operations (+) SetToBag({ o }) /\ instance # 0 )
                      => o.pc = "resolved" /\ o.target = instance
                /\ \A o \in Operations : o.pc = "resolved" => ENABLED Forward(o)
      ]_vars

\* The proxy is destroyed while an execution of updateTarget called by a
\* callback is in progress; the handle still holds the table of
\* initialize(), destroy() was not called on it, and a data operation has
\* been forwarded to it.
C20_Witness ==
    /\ destroyed
    /\ ~environmentObserver
    /\ instance = 1
    /\ tables[1].destroy = 0
    /\ \E s \in DOMAIN swaps : swaps[s].by = "observer" /\ swaps[s].pc = "created"
    /\ \E o \in Operations : o.pc = "forwarded" /\ o.target = 1

(* ----------------------------- convergence ---------------------------- *)

\* Changes of the settings in one behaviour of SpecConverge.
MaxChanges == 2

\* The environment changes the optimisation settings and triggers
\* CoreConfigProvider.ENVIRONMENT_UPDATED: the registered observer is called
\* and runs up to the await of getRuntimeConfig.
SetConfigAndNotify ==
    /\ swaps # << >>
    /\ changed < MaxChanges
    /\ environmentObserver
    /\ changed' = changed + 1
    /\ notified' = notified + 1
    /\ \E e \in Environments :
          /\ e # CONFIG
          /\ CONFIG' = e
    /\ handlers' = handlers (+) SetToBag({ NewHandler })
    /\ UNCHANGED << config, ready, environmentObserver, destroyed, instance,
                    tables, swaps, operations >>

\* A proxy that is initialized and not destroyed, whose tables never reject
\* initialize(), under settings that change with a notification each time.
NextConverge ==
    \/ ConfigReady
    \/ Initialize
    \/ SetConfigAndNotify
    \/ \E s \in DOMAIN swaps : CreateTarget(s)
    \/ \E s \in DOMAIN swaps : DestroyOrInitialize(s)
    \/ \E s \in DOMAIN swaps : ResetInstance(s)
    \/ \E s \in DOMAIN swaps : SetInstance(s)
    \/ \E h \in BagToSet(handlers) : HandlerGetInstance(h)
    \/ \E h \in BagToSet(handlers) : HandlerUpdateTarget(h)

SpecConverge == Init /\ [][NextConverge]_vars

\* Every callback has returned and no execution of updateTarget is in
\* progress.
Quiescent ==
    /\ swaps # << >>
    /\ \A h \in Handlers : h.pc = "done"
    /\ \A s \in DOMAIN swaps : swaps[s].pc \notin InProgress

\* C18 (convergence). When every change of the settings was followed by a
\* notification, every callback has returned and every execution of
\* updateTarget has ended, the handle holds a table of the constructor
\* registered for the strategy that the settings now resolve to.
C18_Convergence ==
    ( /\ Quiescent
      /\ targetConstructors(getRuntimeConfig(config, CONFIG).cachingStrategy)
            # Undefined )
    => /\ instance # 0
       /\ tables[instance].constructor
             = targetConstructors(getRuntimeConfig(config, CONFIG).cachingStrategy)

====
